---- MODULE Spec2Model ----
(***************************************************************************)
(* Model of dna_features_viewer: GraphicFeature (crop, split_in_two,       *)
(* overlaps_with, length, length_circular, x_center, x_center_circular)    *)
(* and GraphicRecord (crop, split_overflowing_features_circularly).        *)
(* The level assignment of the plotting code is modelled from its         *)
(* description, on top of GraphicFeature.overlaps_with.                    *)
(*                                                                         *)
(* A feature is a record [start, end, label, open_left, open_right]; the   *)
(* remaining attributes (strand, colours, fonts) are carried unchanged by  *)
(* deepcopy and take part in no decision, so they are left out.            *)
(* Python's None is the empty tuple <<>> and an integer v is <<v>> wherever *)
(* a value may be None (circular_seq_length and the ends of the ranges     *)
(* built from it).                                                         *)
(* The outcome of a call is Return(v) or Raise(e).                         *)
(* x_center and x_center_circular multiply by 0.5; all their values are    *)
(* halves of integers, exact in floating point, and are represented by     *)
(* TWICE their value (an integer number of half positions).                *)
(***************************************************************************)
EXTENDS Integers, Sequences, FiniteSets, TLC

\* ----------------------------------------------------------------- bounds
\* largest coordinate of the features drawn for the feature-level functions
MaxCoord == 3
\* sequence_length of the generic records
MaxSeqLen == 2
\* largest number of features of a generic record
MaxFeatures == 2
\* the non-zero first_index of a generic record
MaxFirstIndex == 1
\* largest number of features of a record whose levels are assigned
MaxLevelFeatures == 3
\* largest sequence_length of a record whose levels are assigned
MaxLevelSeqLen == 4

VARIABLES
    features,         \* GraphicRecord.features
    sequence_length,  \* GraphicRecord.sequence_length
    first_index,      \* GraphicRecord.first_index
    feature,          \* the GraphicFeature a method is called on (self)
    other,            \* the GraphicFeature passed as `other`
    op,               \* name of the last operation
    args,             \* its arguments
    result            \* its outcome

vars == <<features, sequence_length, first_index, feature, other, op, args, result>>

\* ------------------------------------------------------------ Python values
None == <<>>

Some(v) == <<v>>

IsNone(x) == x = <<>>

Val(x) == x[1]

Return(v) == [kind |-> "return", val |-> v]

Raise(e) == [kind |-> "raise", val |-> e]

NoResult == [kind |-> "none", val |-> None]

\* two outcomes are the same boolean, or both fail
SameOutcome(x, y) ==
    /\ x.kind = y.kind
    /\ (x.kind = "return" => x.val = y.val)

\* the call returned True
IsTrue(x) == x.kind = "return" /\ x.val

Abs(n) == IF n < 0 THEN -n ELSE n

\* ---------------------------------------------------------- GraphicFeature
GraphicFeature(start, end, label) ==
    [start |-> start, end |-> end, label |-> label,
     open_left |-> FALSE, open_right |-> FALSE]

\* faulty variant of split_in_two: the second fragment starts at the cut itself
split_in_two_overlapping(self, x_coord) ==
    LET copy1 == [self EXCEPT !.end = x_coord]
        copy2 == [self EXCEPT !.start = x_coord]
    IN  <<copy1, copy2>>

split_in_two(self, x_coord) ==
    LET copy1 == [self EXCEPT !.end = x_coord]
        copy2 == [self EXCEPT !.start = x_coord + 1]
    IN  <<copy1, copy2>>

\* faulty variant of crop: the right side is cut without being flagged open
crop_no_open_right(self, window) ==
    LET s == window[1]
        e == window[2]
    IN  IF (s > self.end) \/ (e < self.start)
        THEN None
        ELSE LET c1 == IF s > self.start
                       THEN [self EXCEPT !.start = s, !.open_left = TRUE]
                       ELSE self
                 c2 == IF e < self.end
                       THEN [c1 EXCEPT !.end = e]
                       ELSE c1
             IN  Some(c2)

\* crop returns None (<<>>) or the cropped copy (<<copy>>)
crop(self, window) ==
    LET s == window[1]
        e == window[2]
    IN  IF (s > self.end) \/ (e < self.start)
        THEN None
        ELSE LET c1 == IF s > self.start
                       THEN [self EXCEPT !.start = s, !.open_left = TRUE]
                       ELSE self
                 c2 == IF e < self.end
                       THEN [c1 EXCEPT !.end = e, !.open_right = TRUE]
                       ELSE c1
             IN  Some(c2)

\* the one or two ranges overlaps_with decomposes a feature into; a range
\* is a pair of optional integers
ranges(f, circular_seq_length) ==
    IF f.start < f.end
    THEN << <<Some(f.start), Some(f.end)>> >>
    ELSE << <<Some(f.start), circular_seq_length>>,
            <<Some(0), Some(f.end)>> >>

\* Python 3 (the sources hold non-ASCII text without an encoding line, which
\* Python 2 rejects) tuple comparison t1 < t2 of two pairs: the first index whose
\* elements are not equal decides, and ordering None raises TypeError
TupleLtRaises(t1, t2) ==
    IF t1[1] # t2[1] THEN IsNone(t1[1]) \/ IsNone(t2[1])
    ELSE IF t1[2] # t2[2] THEN IsNone(t1[2]) \/ IsNone(t2[2])
    ELSE FALSE

TupleLt(t1, t2) ==
    IF t1[1] # t2[1] THEN Val(t1[1]) < Val(t2[1])
    ELSE IF t1[2] # t2[2] THEN Val(t1[2]) < Val(t2[2])
    ELSE FALSE

\* sorted([x, y]): one comparison, y < x, decides the order
SortedRaises(x, y) == TupleLtRaises(y, x)

sorted(x, y) == IF TupleLt(y, x) THEN <<y, x>> ELSE <<x, y>>

\* faulty variant of PairLocs: the two ranges are taken as given, not sorted
PairLocsUnsorted(self_range, other_range) == <<self_range, other_range>>

\* loc1, loc2 = sorted([self_range, other_range])
PairLocs(self_range, other_range) == sorted(self_range, other_range)

\* one pass of the inner loop body: "raise", or whether the pair overlaps
PairRaises(self_range, other_range) ==
    \/ SortedRaises(self_range, other_range)
    \/ IsNone(PairLocs(self_range, other_range)[1][2])
    \/ IsNone(PairLocs(self_range, other_range)[2][1])

PairOverlaps(self_range, other_range) ==
    LET locs == PairLocs(self_range, other_range)
    IN  Val(locs[1][2]) > Val(locs[2][1])

\* faulty variant of NeedsCircularLength: only self is tested for spanning the origin
NeedsCircularLengthSelfOnly(self, o, circular_seq_length) ==
    self.start > self.end /\ IsNone(circular_seq_length)

\* the guard of overlaps_with
NeedsCircularLength(self, o, circular_seq_length) ==
    (self.start > self.end \/ o.start > o.end) /\ IsNone(circular_seq_length)

overlaps_with(self, o, circular_seq_length) ==
    IF NeedsCircularLength(self, o, circular_seq_length)
    THEN Raise("ValueError")
    ELSE LET self_ranges == ranges(self, circular_seq_length)
             other_ranges == ranges(o, circular_seq_length)
             pairs == {<<i, j>> \in (1..Len(self_ranges)) \X (1..Len(other_ranges)) : TRUE}
         IN  IF \E p \in pairs : PairRaises(self_ranges[p[1]], other_ranges[p[2]])
             THEN Raise("TypeError")
             ELSE Return(\E p \in pairs :
                            PairOverlaps(self_ranges[p[1]], other_ranges[p[2]]))

length(self) == Abs(self.end - self.start)

length_circular(self, seq_len) ==
    IF self.start > self.end
    THEN seq_len - self.start + self.end
    ELSE self.end - self.start

\* twice 0.5 * (start + end - 1)
x_center(self) == self.start + self.end - 1

\* twice the result of x_center_circular
x_center_circular(self, seq_len) ==
    LET feature_length == length_circular(self, seq_len)
        mid_point == feature_length + 2 * self.start
    IN  IF mid_point <= 2 * seq_len
        THEN mid_point
        ELSE mid_point - 2 * seq_len

NoFeature == GraphicFeature(0, 0, "")

\* ----------------------------------------------------------- GraphicRecord
\* the body of the loop of split_overflowing_features_circularly: the
\* features that f contributes to new_features
SplitOne(f, seq_len) ==
    IF f.start < 0 /\ 0 < f.end
    THEN LET p == split_in_two(f, -1)
             f1 == [p[1] EXCEPT !.start = p[1].start + seq_len,
                                !.end = p[1].end + seq_len]
             f2 == p[2]
         IN  <<f1, f2>>
    ELSE IF f.start < seq_len /\ seq_len < f.end
    THEN LET p == split_in_two(f, seq_len - 1)
             f1 == p[1]
             f2 == [p[2] EXCEPT !.start = p[2].start - seq_len,
                                !.end = p[2].end - seq_len]
         IN  <<f1, f2>>
    ELSE <<f>>

RECURSIVE split_overflowing_features_circularly(_, _)
split_overflowing_features_circularly(feats, seq_len) ==
    IF feats = <<>>
    THEN <<>>
    ELSE SplitOne(Head(feats), seq_len)
            \o split_overflowing_features_circularly(Tail(feats), seq_len)

\* faulty variant of OutOfBound: a window ending exactly at sequence_length passes
OutOfBoundOffByOne(window, seq_len) ==
    (window[1] < 0) \/ (window[2] > seq_len)

\* the guard of GraphicRecord.crop
OutOfBound(window, seq_len) ==
    (window[1] < 0) \/ (window[2] >= seq_len)

\* the loop of GraphicRecord.crop
RECURSIVE new_features(_, _)
new_features(feats, window) ==
    IF feats = <<>>
    THEN <<>>
    ELSE LET cropped_feature == crop(Head(feats), window)
         IN  (IF IsNone(cropped_feature) THEN <<>> ELSE <<Val(cropped_feature)>>)
                \o new_features(Tail(feats), window)

\* faulty variant of CroppedRecord: first_index restarts at s
CroppedRecordFirstIndexReset(feats, seq_len, first, window) ==
    [features |-> new_features(feats, window),
     sequence_length |-> window[2] - window[1],
     first_index |-> window[1]]

\* the record GraphicRecord.crop constructs (records are built with
\* sequence=None, as in the tests)
CroppedRecord(feats, seq_len, first, window) ==
    [features |-> new_features(feats, window),
     sequence_length |-> window[2] - window[1],
     first_index |-> first + window[1]]

GraphicRecord_crop(feats, seq_len, first, window) ==
    IF OutOfBound(window, seq_len)
    THEN Raise("ValueError")
    ELSE Return(CroppedRecord(feats, seq_len, first, window))

\* --------------------------------------------------- record specification
Labels == <<"a", "b", "c", "d", "e">>

\* (start, end) pairs with start <= end, from one position below the origin
\* to one past the end of the sequence: a feature can lie before, across,
\* within, on and beyond each edge, or across both
LinearPairs(seq_len) ==
    {p \in ((-1)..(seq_len + 1)) \X ((-1)..(seq_len + 1)) : p[1] <= p[2]}

FeatureLists(pairs, max) ==
    UNION {{[i \in 1..n |-> GraphicFeature(ps[i][1], ps[i][2], Labels[i])] :
                ps \in [1..n -> pairs]} : n \in 0..max}

\* the record of test_split_overflowing_features
SplitTestFeatures ==
    <<GraphicFeature(10, 20, "a"), GraphicFeature(40, 55, "b"), GraphicFeature(-20, 2, "c")>>

SplitTestLength == 50

\* the record and the window of test_cropping
CropTestFeatures ==
    <<GraphicFeature(5, 20, "Small feature"),
      GraphicFeature(20, 500, "Gene 1 with a very long name"),
      GraphicFeature(400, 700, "Gene 2"),
      GraphicFeature(600, 900, "Gene 3")>>

CropTestLength == 1000

CropTestWindow == <<425, 650>>

\* windows from one position below the origin to the longest sequence_length
\* (for every record some are in bounds, some out of bounds on either side),
\* and the window of the test
Windows ==
    (((-1)..MaxSeqLen) \X ((-1)..MaxSeqLen)) \cup {CropTestWindow}

Init ==
    /\ \/ /\ sequence_length = MaxSeqLen
          /\ features \in FeatureLists(LinearPairs(sequence_length), MaxFeatures)
          /\ first_index \in {0, MaxFirstIndex}
       \/ /\ sequence_length = SplitTestLength
          /\ features = SplitTestFeatures
          /\ first_index = 0
       \/ /\ sequence_length = CropTestLength
          /\ features = CropTestFeatures
          /\ first_index = 0
    /\ feature = NoFeature
    /\ other = NoFeature
    /\ op = "init"
    /\ args = <<>>
    /\ result = NoResult

\* record.split_overflowing_features_circularly(), in place
Split ==
    /\ features' = split_overflowing_features_circularly(features, sequence_length)
    /\ op' = "split"
    /\ args' = <<>>
    /\ result' = Return(None)
    /\ UNCHANGED <<sequence_length, first_index, feature, other>>

\* record.crop(window): the record itself is left alone
Crop ==
    \E window \in Windows :
        /\ op' = "record_crop"
        /\ args' = window
        /\ result' = GraphicRecord_crop(features, sequence_length, first_index, window)
        /\ UNCHANGED <<features, sequence_length, first_index, feature, other>>

Next ==
    \/ Split
    \/ Crop

Spec == Init /\ [][Next]_vars

\* ------------------------------------------------ feature-level specification
Coords == 0..MaxCoord

InitFeature ==
    /\ \E s \in Coords, e \in Coords, ol \in BOOLEAN, or \in BOOLEAN :
          feature = [GraphicFeature(s, e, "a") EXCEPT !.open_left = ol, !.open_right = or]
    /\ \E s \in Coords, e \in Coords : other = GraphicFeature(s, e, "b")
    /\ features = <<>>
    /\ sequence_length = 0
    /\ first_index = 0
    /\ op = "init"
    /\ args = <<>>
    /\ result = NoResult

FeatureCrop ==
    \E s \in Coords, e \in Coords :
        /\ op' = "crop"
        /\ args' = <<s, e>>
        /\ result' = Return(crop(feature, <<s, e>>))
        /\ UNCHANGED <<features, sequence_length, first_index, feature, other>>

FeatureSplitInTwo ==
    \E x \in Coords :
        /\ op' = "split_in_two"
        /\ args' = <<x>>
        /\ result' = Return(split_in_two(feature, x))
        /\ UNCHANGED <<features, sequence_length, first_index, feature, other>>

FeatureOverlapsWith ==
    \E c \in {None} \cup {Some(n) : n \in 1..(MaxCoord + 1)} :
        /\ op' = "overlaps_with"
        /\ args' = c
        /\ result' = overlaps_with(feature, other, c)
        /\ UNCHANGED <<features, sequence_length, first_index, feature, other>>

FeatureLength ==
    /\ op' = "length"
    /\ args' = <<>>
    /\ result' = Return(length(feature))
    /\ UNCHANGED <<features, sequence_length, first_index, feature, other>>

FeatureLengthCircular ==
    \E n \in 1..(MaxCoord + 1) :
        /\ op' = "length_circular"
        /\ args' = <<n>>
        /\ result' = Return(length_circular(feature, n))
        /\ UNCHANGED <<features, sequence_length, first_index, feature, other>>

FeatureXCenter ==
    /\ op' = "x_center"
    /\ args' = <<>>
    /\ result' = Return(x_center(feature))
    /\ UNCHANGED <<features, sequence_length, first_index, feature, other>>

FeatureXCenterCircular ==
    \E n \in 1..(MaxCoord + 1) :
        /\ op' = "x_center_circular"
        /\ args' = <<n>>
        /\ result' = Return(x_center_circular(feature, n))
        /\ UNCHANGED <<features, sequence_length, first_index, feature, other>>

NextFeature ==
    \/ FeatureCrop
    \/ FeatureSplitInTwo
    \/ FeatureOverlapsWith
    \/ FeatureLength
    \/ FeatureLengthCircular
    \/ FeatureXCenter
    \/ FeatureXCenterCircular

SpecFeature == InitFeature /\ [][NextFeature]_vars

\* ------------------------------------------------------ feature-level claims
Max(a, b) == IF a > b THEN a ELSE b

Min(a, b) == IF a < b THEN a ELSE b

\* what the crop claim says of a feature f, a window w and crop's result r:
\* None iff the closed intervals are disjoint, else the exact intersection
\* with the truncated sides flagged open
CropAsClaimed(f, w, r) ==
    LET disjoint == (f.start..f.end) \cap (w[1]..w[2]) = {}
    IN  /\ IsNone(r) <=> disjoint
        /\ ~IsNone(r) =>
              /\ Val(r).start = Max(f.start, w[1])
              /\ Val(r).end = Min(f.end, w[2])
              /\ (w[1] > f.start => Val(r).open_left)
              /\ (w[2] < f.end => Val(r).open_right)

\* C2 as stated: for ALL features and ALL windows, crop returns None iff
\* [f.start, f.end] and the window are disjoint, and otherwise the exact
\* intersection with truncated sides flagged open
C2_AllFeaturesAllWindows ==
    op = "crop" => CropAsClaimed(feature, args, result.val)

\* C2 amended: for every feature with start <= end and every window with
\* s <= e, crop returns None iff [f.start, f.end] and [s, e] are disjoint, and
\* otherwise a feature whose (start, end) is the exact intersection, with
\* open_left set when s > f.start and open_right set when e < f.end
C2_CropIsIntersection ==
    (op = "crop" /\ feature.start <= feature.end /\ args[1] <= args[2])
        => CropAsClaimed(feature, args, result.val)

\* a feature truncated on both sides, and (in another state) a disjoint one
C2_Witness ==
    /\ op = "crop"
    /\ feature.start < args[1]
    /\ args[1] < args[2]
    /\ args[2] < feature.end
    /\ ~feature.open_left
    /\ ~feature.open_right
    /\ ~IsNone(result.val)
    /\ Val(result.val).open_left
    /\ Val(result.val).open_right

\* C5: overlaps_with is symmetric: a.overlaps_with(b, c) and
\* b.overlaps_with(a, c) are the same boolean or both fail, for c given or
\* omitted
C5_OverlapsSymmetric ==
    op = "overlaps_with" => SameOutcome(result, overlaps_with(other, feature, args))

\* an origin-spanning feature found to overlap a plain one on a circle
C5_Witness ==
    /\ op = "overlaps_with"
    /\ ~IsNone(args)
    /\ feature.start > feature.end
    /\ other.start < other.end
    /\ result.kind = "return"
    /\ result.val = TRUE

\* C6: without circular_seq_length, overlaps_with fails with an error
\* whenever either feature has start > end
C6_OriginSpanningNeedsLength ==
    (/\ op = "overlaps_with"
     /\ IsNone(args)
     /\ (feature.start > feature.end \/ other.start > other.end))
        => (result.kind = "raise" /\ result.val = "ValueError")

\* only `other` spans the origin, no length given: the call raised
C6_Witness ==
    /\ op = "overlaps_with"
    /\ IsNone(args)
    /\ feature.start < feature.end
    /\ other.start > other.end
    /\ result.kind = "raise"

\* C9: for a feature with start <= end, length_circular equals length and
\* x_center_circular equals x_center, for every sequence_length
C9_CircularEqualsPlain ==
    /\ (op = "length_circular" /\ feature.start <= feature.end)
          => result.val = length(feature)
    /\ (op = "x_center_circular" /\ feature.start <= feature.end)
          => result.val = x_center(feature)

\* C10: for an origin-spanning feature (0 <= end < start < sequence_length),
\* length_circular and x_center_circular both lie in [0, sequence_length)
\* (x_center_circular is held as twice its value)
C10_CircularWithinSequence ==
    /\ (/\ op = "length_circular"
        /\ 0 <= feature.end /\ feature.end < feature.start
        /\ feature.start < args[1])
          => (0 <= result.val /\ result.val < args[1])
    /\ (/\ op = "x_center_circular"
        /\ 0 <= feature.end /\ feature.end < feature.start
        /\ feature.start < args[1])
          => (0 <= result.val /\ result.val < 2 * args[1])

\* ------------------------------------------------------------ record claims
Triple(f) == <<f.start, f.end, f.label>>

Triples(feats) == [i \in 1..Len(feats) |-> Triple(feats[i])]

\* the fragments the split claim gives for one feature
ClaimedFragments(f, seq_len) ==
    IF f.start < 0 /\ 0 < f.end
    THEN << <<f.start + seq_len, seq_len - 1, f.label>>, <<0, f.end, f.label>> >>
    ELSE IF f.start < seq_len /\ seq_len < f.end
    THEN << <<f.start, seq_len - 1, f.label>>, <<0, f.end - seq_len, f.label>> >>
    ELSE << Triple(f) >>

RECURSIVE ClaimedSplit(_, _)
ClaimedSplit(feats, seq_len) ==
    IF feats = <<>>
    THEN <<>>
    ELSE ClaimedFragments(Head(feats), seq_len) \o ClaimedSplit(Tail(feats), seq_len)

\* the sorted list test_split_overflowing_features expects
SplitTestExpected ==
    << <<0, 2, "c">>, <<0, 5, "b">>, <<10, 20, "a">>, <<30, 49, "c">>, <<40, 49, "b">> >>

\* sorting s gives the (sorted, duplicate-free) list t
SortsTo(s, t) ==
    /\ Len(s) = Len(t)
    /\ \E p \in Permutations(1..Len(t)) : \A i \in 1..Len(t) : s[p[i]] = t[i]

\* C1: split_overflowing_features_circularly replaces, in place and in order,
\* every feature with start < 0 < end by (start+L, L-1) and (0, end), every
\* other feature with start < L < end by (start, L-1) and (0, end-L), leaves
\* the rest unchanged, keeps the labels; the three features of the test on
\* L = 50 give, sorted, (0,2,c), (0,5,b), (10,20,a), (30,49,c), (40,49,b)
C1_SplitAsClaimed ==
    [][op' = "split" =>
        /\ Triples(features') = ClaimedSplit(features, sequence_length)
        /\ (features = SplitTestFeatures /\ sequence_length = SplitTestLength)
              => SortsTo(Triples(features'), SplitTestExpected)]_vars

\* the record of the test after the split: both kinds of overflow were cut
C1_Witness ==
    /\ op = "split"
    /\ sequence_length = SplitTestLength
    /\ Triples(features) =
          << <<10, 20, "a">>, <<40, 49, "b">>, <<0, 5, "b">>, <<30, 49, "c">>, <<0, 2, "c">> >>

\* the features the crop claim gives: the non-None results of Feature.crop,
\* in the original order
ClaimedCropFeatures(feats, window) ==
    LET cropped == [i \in 1..Len(feats) |-> crop(feats[i], window)]
        kept == SelectSeq(cropped, LAMBDA x : ~IsNone(x))
    IN  [j \in 1..Len(kept) |-> Val(kept[j])]

\* C3: for a window (s, e) with 0 <= s and e < L, GraphicRecord.crop returns
\* a record with, in order, the non-None results of Feature.crop on each
\* feature, sequence_length e - s and first_index + s; the 1000-long record
\* of the test cropped to (425, 650) keeps exactly 3 features
C3_RecordCrop ==
    (op = "record_crop" /\ 0 <= args[1] /\ args[2] < sequence_length) =>
        /\ result.kind = "return"
        /\ result.val.features = ClaimedCropFeatures(features, args)
        /\ result.val.sequence_length = args[2] - args[1]
        /\ result.val.first_index = first_index + args[1]
        /\ (/\ features = CropTestFeatures
            /\ sequence_length = CropTestLength
            /\ args = CropTestWindow) => Len(result.val.features) = 3

\* a record with first_index > 0 cropped so that a feature is dropped and
\* another is kept
C3_Witness ==
    /\ op = "record_crop"
    /\ first_index > 0
    /\ args[1] > 0
    /\ result.kind = "return"
    /\ Len(features) = 2
    /\ Len(result.val.features) = 1

\* C4: if every feature of a record of length L has start <= end and
\* coordinates in [-L, 2L), then after split_overflowing_features_circularly
\* every feature has start and end within [0, L)
C4_AllWithinSequence ==
    [][(/\ op' = "split"
        /\ \A i \in 1..Len(features) :
              /\ features[i].start <= features[i].end
              /\ -sequence_length <= features[i].start
              /\ features[i].end < 2 * sequence_length)
        => \A j \in 1..Len(features') :
              /\ 0 <= features'[j].start /\ features'[j].start < sequence_length
              /\ 0 <= features'[j].end /\ features'[j].end < sequence_length]_vars

\* C7: GraphicRecord.crop with s < 0 or e >= sequence_length fails with a
\* range error, returns no record and leaves the source record's features,
\* sequence_length and first_index unchanged
C7_OutOfBoundCropFails ==
    [][(op' = "record_crop" /\ (args'[1] < 0 \/ args'[2] >= sequence_length)) =>
        /\ result'.kind = "raise"
        /\ result'.val = "ValueError"
        /\ features' = features
        /\ sequence_length' = sequence_length
        /\ first_index' = first_index]_vars

\* a window that ends exactly at sequence_length was refused
C7_Witness ==
    /\ op = "record_crop"
    /\ args[1] >= 0
    /\ args[1] < args[2]
    /\ args[2] = sequence_length
    /\ Len(features) > 0
    /\ result.kind = "raise"
    /\ result.val = "ValueError"

\* ---------------------------------------------------------- level assignment
\* The level assignment is described in the specification's section 4.3
\* (its code is in the plotting mixins, which are not among the sources):
\* features are processed by start position, ties by original order; each is
\* put on the lowest-numbered level whose most recently placed occupant does
\* not overlap it, or on a new level.  Levels are numbered from 0.

\* the indexes of feats in processing order
FeatureOrder(feats) ==
    LET n == Len(feats)
        Before(j, i) ==
            \/ feats[j].start < feats[i].start
            \/ (feats[j].start = feats[i].start /\ j < i)
        Rank(i) == Cardinality({j \in 1..n : Before(j, i)}) + 1
    IN  [k \in 1..n |-> CHOOSE i \in 1..n : Rank(i) = k]

\* circular_seq_length as the level assignment passes it to overlaps_with
CircularLength(circular, seq_len) == IF circular THEN Some(seq_len) ELSE None

\* the first level (1-based position in `last`) whose occupant is not found
\* to overlap feature i: the overlap test there returned False or raised;
\* Len(last) + 1 when every occupant overlaps
FirstOpenLevel(feats, last, i, c) ==
    LET open == {l \in 1..Len(last) :
                    ~IsTrue(overlaps_with(feats[last[l]], feats[i], c))}
    IN  IF open = {} THEN Len(last) + 1
        ELSE CHOOSE l \in open : \A m \in open : l <= m

\* place the features order[k..] given the last occupant of every level and
\* the levels given so far (-1: none yet)
RECURSIVE PlaceFrom(_, _, _, _, _, _)
PlaceFrom(feats, order, k, last, levels, c) ==
    IF k > Len(order)
    THEN Return(levels)
    ELSE LET i == order[k]
             l == FirstOpenLevel(feats, last, i, c)
         IN  IF l <= Len(last) /\ overlaps_with(feats[last[l]], feats[i], c).kind = "raise"
             THEN Raise(overlaps_with(feats[last[l]], feats[i], c).val)
             ELSE PlaceFrom(feats, order, k + 1,
                            IF l <= Len(last) THEN [last EXCEPT ![l] = i]
                                              ELSE Append(last, i),
                            [levels EXCEPT ![i] = l - 1], c)

compute_features_levels(feats, circular, seq_len) ==
    PlaceFrom(feats, FeatureOrder(feats), 1, <<>>,
              [i \in 1..Len(feats) |-> -1], CircularLength(circular, seq_len))

\* (start, end) pairs within [0, L), origin-spanning ones included
CircularPairs(seq_len) == (0..(seq_len - 1)) \X (0..(seq_len - 1))

InitLevels ==
    /\ sequence_length \in 1..MaxLevelSeqLen
    /\ features \in FeatureLists(CircularPairs(sequence_length), MaxLevelFeatures)
    /\ first_index = 0
    /\ feature = NoFeature
    /\ other = NoFeature
    /\ op = "init"
    /\ args = <<>>
    /\ result = NoResult

ComputeLevels ==
    \E circular \in BOOLEAN :
        /\ op' = "compute_features_levels"
        /\ args' = <<circular>>
        /\ result' = compute_features_levels(features, circular, sequence_length)
        /\ UNCHANGED <<features, sequence_length, first_index, feature, other>>

NextLevels == ComputeLevels

SpecLevels == InitLevels /\ [][NextLevels]_vars

\* C8: on any record, linear or circular, origin-spanning features included,
\* the level assignment never gives the same level to two features that
\* overlap per overlaps_with (circular_seq_length = sequence_length when the
\* record is circular)
C8_NoOverlapOnALevel ==
    (op = "compute_features_levels" /\ result.kind = "return") =>
        \A i \in 1..Len(features), j \in 1..Len(features) :
            (/\ i < j
             /\ IsTrue(overlaps_with(features[i], features[j],
                                     CircularLength(args[1], sequence_length))))
                => result.val[i] # result.val[j]

\* ------------------------------------------------------------- later claims
\* the two ranges (a.start, a.end) and (b.start, b.end), sorted, strictly
\* overlap: the earlier one ends after the later one starts
StrictlyOverlap(a, b) ==
    LET aFirst == a.start < b.start \/ (a.start = b.start /\ a.end <= b.end)
        earlier == IF aFirst THEN a ELSE b
        later == IF aFirst THEN b ELSE a
    IN  earlier.end > later.start

\* C11: for two features with start <= end (zero-length ones included),
\* overlaps_with without circular_seq_length decomposes each into the single
\* range (start, end), never fails, and returns true exactly when the two
\* ranges strictly overlap; features that merely touch do not overlap
C11_LinearOverlapIsStrict ==
    (/\ op = "overlaps_with"
     /\ IsNone(args)
     /\ feature.start <= feature.end
     /\ other.start <= other.end)
        => /\ ranges(feature, args) = << <<Some(feature.start), Some(feature.end)>> >>
           /\ ranges(other, args) = << <<Some(other.start), Some(other.end)>> >>
           /\ result.kind = "return"
           /\ result.val = StrictlyOverlap(feature, other)

\* every feature has start <= end and coordinates in [-L, 2L); the split
\* keeps this true, so it holds after a call iff it held before it
WithinReach(feats, seq_len) ==
    \A i \in 1..Len(feats) :
        /\ feats[i].start <= feats[i].end
        /\ -seq_len <= feats[i].start
        /\ feats[i].end < 2 * seq_len

\* C12: split_overflowing_features_circularly is idempotent: on a record
\* whose features have start <= end and coordinates in [-L, 2L), a call
\* that follows another call leaves the feature list exactly as it was
C12_SplitIdempotent ==
    [][(/\ op = "split"
        /\ WithinReach(features, sequence_length)
        /\ op' = "split")
        => features' = features]_vars

====
